---- MODULE Spec2Model ----
(***************************************************************************)
(* A model of bottlenet-architecture-torch.ipynb: the custom autograd      *)
(* function BottleneckUnit (a JPEG round trip in the forward pass, the     *)
(* identity in the backward pass), the network Net that holds it, and the  *)
(* train/test harness that drives it.                                      *)
(*                                                                         *)
(* Numbers.  A tensor element is a rational; the model stores it as an     *)
(* integer number of units of 1/510, so that 1.0 is 510, 0.5 is 255 and    *)
(* the 8-bit level L read back by ToTensor, L/255, is 2*L.  255*x is then  *)
(* n/2 for the stored integer n, which makes the float -> uint8            *)
(* truncation exact.  A tensor is a record of its shape and of its         *)
(* contiguous row-major storage.                                           *)
(***************************************************************************)
EXTENDS Integers, Sequences, FiniteSets, TLC

Abs(n) == IF n < 0 THEN -n ELSE n

Min(a, b) == IF a < b THEN a ELSE b

Max(a, b) == IF a < b THEN b ELSE a

\* a / b rounded to the nearest integer, halves away from zero (b > 0)
RoundDiv(a, b) == IF a >= 0 THEN (2 * a + b) \div (2 * b)
                            ELSE -((2 * (-a) + b) \div (2 * b))

\* a / b truncated toward zero, as a C cast of a float to an integer does
TruncDiv(a, b) == IF a >= 0 THEN a \div b ELSE -((-a) \div b)

RECURSIVE Prod(_)
Prod(s) == IF s = <<>> THEN 1 ELSE Head(s) * Prod(Tail(s))

(***************************************************************************)
(* The JPEG codec behind image.save(stream, "JPEG", quality=90) and        *)
(* Image.open: a baseline single-component JPEG.  The image is cut into    *)
(* 8x8 blocks (the right and bottom edges replicated), each block is       *)
(* level-shifted by 128, transformed by the 2-D DCT, and quantized by the  *)
(* luminance table scaled for the quality; decoding dequantizes, inverts   *)
(* the DCT, shifts back and limits the sample to 0..255.  The entropy      *)
(* coding is lossless and is not modelled: the stream holds the image      *)
(* size and the quantized coefficients.  The DCT is computed in fixed      *)
(* point (cosines scaled by 4096, three extra bits kept between the two    *)
(* passes).                                                                *)
(***************************************************************************)
Quality == 90

BlockSize == 8

LevelShift == 128

MaxSample == 255

\* the JPEG standard's luminance quantization table (Annex K.1), row-major
StdLuminance ==
  << <<16, 11, 10, 16,  24,  40,  51,  61>>,
     <<12, 12, 14, 19,  26,  58,  60,  55>>,
     <<14, 13, 16, 24,  40,  57,  69,  56>>,
     <<14, 17, 22, 29,  51,  87,  80,  62>>,
     <<18, 22, 37, 56,  68, 109, 103,  77>>,
     <<24, 35, 55, 64,  81, 104, 113,  92>>,
     <<49, 64, 78, 87, 103, 121, 120, 101>>,
     <<72, 92, 95, 98, 112, 100, 103,  99>> >>

\* libjpeg's jpeg_quality_scaling: the percentage the table is scaled by
QualityScaling(q) ==
  LET qq == Max(1, Min(100, q))
  IN  IF qq < 50 THEN 5000 \div qq ELSE 200 - 2 * qq

\* the quantizer step of coefficient (v, u), baseline (1..255)
QuantStep(q, v, u) ==
  Max(1, Min(255, (StdLuminance[v + 1][u + 1] * QualityScaling(q) + 50) \div 100))

\* the 8-tuple <<F(0), ..., F(7)>>
Tup8(F(_)) == <<F(0), F(1), F(2), F(3), F(4), F(5), F(6), F(7)>>

\* the 8x8 table of F(v, u), as a tuple of rows: entry (v, u) is T[v + 1][u + 1]
Tab8(F(_, _)) == Tup8(LAMBDA v : Tup8(LAMBDA u : F(v, u)))

QuantTable(q) == Tab8(LAMBDA v, u : QuantStep(q, v, u))

\* 4096 * cos(k * pi / 16) for k = 0..8
CosTab == <<4096, 4017, 3784, 3406, 2896, 2276, 1567, 799, 0>>

\* 4096 * cos(k * pi / 16) for any k >= 0
Cos16(k) ==
  LET m == k % 32
  IN  IF m <= 8 THEN CosTab[m + 1]
      ELSE IF m <= 16 THEN -CosTab[16 - m + 1]
      ELSE IF m <= 24 THEN -CosTab[m - 16 + 1]
      ELSE CosTab[32 - m + 1]

\* 8192 * (c(u) / 2) * cos((2x + 1) * u * pi / 16), with c(0) = 1 / sqrt(2)
Basis == Tab8(LAMBDA u, x : IF u = 0 THEN CosTab[5] ELSE Cos16((2 * x + 1) * u))

\* sum over k = 0..7 of Basis(u, k) * f(k), f an 8-tuple
Dot(u, f) ==
  LET b == Basis[u + 1]
  IN  b[1] * f[1] + b[2] * f[2] + b[3] * f[3] + b[4] * f[4]
    + b[5] * f[5] + b[6] * f[6] + b[7] * f[7] + b[8] * f[8]

\* sum over k = 0..7 of Basis(k, x) * F(k), F an 8-tuple
DotT(x, F) ==
    Basis[1][x + 1] * F[1] + Basis[2][x + 1] * F[2] + Basis[3][x + 1] * F[3]
  + Basis[4][x + 1] * F[4] + Basis[5][x + 1] * F[5] + Basis[6][x + 1] * F[6]
  + Basis[7][x + 1] * F[7] + Basis[8][x + 1] * F[8]

\* column u of an 8x8 table, as an 8-tuple
Column(T, u) == Tup8(LAMBDA y : T[y + 1][u + 1])

\* the quantized DCT coefficients of one 8x8 block of samples
EncodeBlock(blk, q) ==
  LET qt == QuantTable(q)
      s  == Tab8(LAMBDA y, x : blk[y + 1][x + 1] - LevelShift)
      \* rows: g(y, u) = 8 * (1-D DCT of row y)
      g  == Tab8(LAMBDA y, u : RoundDiv(Dot(u, s[y + 1]), 1024))
      gT == Tup8(LAMBDA u : Column(g, u))
  IN  \* columns: Dot(v, column u of g) is 65536 * the coefficient (v, u)
      Tab8(LAMBDA v, u : RoundDiv(Dot(v, gT[u + 1]), 65536 * qt[v + 1][u + 1]))

\* a faulty variant of RangeLimit: the decoded sample is stored unlimited
RangeLimitNone(s) == s

\* the sample a decoder stores: limited to the 8-bit range
RangeLimit(s) == Max(0, Min(MaxSample, s))

\* the 8x8 samples decoded from one block of quantized coefficients
DecodeBlock(coef, q) ==
  LET qt == QuantTable(q)
      D  == Tab8(LAMBDA v, u : coef[v + 1][u + 1] * qt[v + 1][u + 1])
      DT == Tup8(LAMBDA u : Column(D, u))
      \* columns: t(y, u) = 8 * (1-D inverse DCT of column u)
      t  == Tab8(LAMBDA y, u : RoundDiv(DotT(y, DT[u + 1]), 1024))
  IN  Tab8(LAMBDA y, x : RangeLimit(RoundDiv(DotT(x, t[y + 1]), 65536) + LevelShift))

\* the number of 8-sample blocks that cover n samples
BlocksFor(n) == (n + BlockSize - 1) \div BlockSize

\* block (br, bc) of an image, its right and bottom edges replicated
BlockOf(img, br, bc) ==
  Tab8(LAMBDA y, x : img.rows[Min(img.height, br * BlockSize + y + 1)]
                             [Min(img.width, bc * BlockSize + x + 1)])

\* the second component of the pair of the set `pairs` whose first is `key`
Lookup(pairs, key) == (CHOOSE pr \in pairs : pr[1] = key)[2]

\* image.save(stream, "JPEG", quality=q): the contents written to the stream.
\* Equal blocks have equal coefficients: each distinct block is coded once.
JpegEncode(img, q) ==
  LET nbc    == BlocksFor(img.width)
      n      == BlocksFor(img.height) * nbc
      blocks == [i \in 1..n |-> BlockOf(img, (i - 1) \div nbc, (i - 1) % nbc)]
      coded  == {<<b, EncodeBlock(b, q)>> : b \in {blocks[i] : i \in 1..n}}
  IN  [format |-> "JPEG", width |-> img.width, height |-> img.height,
       quality |-> q, blocks |-> [i \in 1..n |-> Lookup(coded, blocks[i])]]

\* the image a decoder loads from the contents of a JPEG stream
JpegDecode(data) ==
  LET nbc == BlocksFor(data.width)
      n   == Len(data.blocks)
      dec == {<<c, DecodeBlock(c, data.quality)>> :
                c \in {data.blocks[i] : i \in 1..n}}
  IN  [mode |-> "L", width |-> data.width, height |-> data.height,
       rows |-> [r \in 1..data.height |-> [k \in 1..data.width |->
                   Lookup(dec, data.blocks[((r - 1) \div BlockSize) * nbc
                                           + ((k - 1) \div BlockSize) + 1])
                     [((r - 1) % BlockSize) + 1][((k - 1) % BlockSize) + 1]]]]

(***************************************************************************)
(* Tensors.  An absent value (Python's None, an unbound local) is the      *)
(* empty tuple and a present one the 1-tuple of the value.                 *)
(***************************************************************************)
Absent == <<>>

Some(v) == <<v>>

Tensor(shape, data) == [shape |-> shape, data |-> data]

Numel(t) == Len(t.data)

\* element (b, c, i, j), zero-based, of a contiguous 4-D tensor
Elem(t, b, c, i, j) ==
  t.data[((b * t.shape[2] + c) * t.shape[3] + i) * t.shape[4] + j + 1]

\* torch.zeros_like(t)
zeros_like(t) == Tensor(t.shape, [k \in 1..Numel(t) |-> 0])

\* whether t.view(shape) is allowed: the sizes must cover the same elements
ViewOk(t, shape) == Prod(shape) = Numel(t)

\* t.view(shape): the same storage under another shape
view(t, shape) == Tensor(shape, t.data)

(***************************************************************************)
(* torchvision's ToPILImage on a 2-D float tensor: the tensor gets a       *)
(* leading channel axis, is multiplied by 255 and cast to uint8, and the   *)
(* (rows, columns) array becomes an image of mode L.  The cast truncates   *)
(* toward zero.  For a product outside 0..255 the float -> uint8 cast is   *)
(* undefined in C++ and the builds differ: it wraps modulo 256 (through a  *)
(* wider integer) or saturates; CastOutcomes are the two.                  *)
(***************************************************************************)
CastOutcomes == {"wrap", "saturate"}

\* a faulty variant of Mul255Trunc: the product is rounded down, not toward 0
Mul255Floor(n) == n \div 2

\* pic.mul(255) truncated to an integer, for the element stored as n
Mul255Trunc(n) == TruncDiv(n, 2)

\* pic.mul(255).byte() for the element stored as n
ToByte(n, cast) ==
  LET v == Mul255Trunc(n)
  IN  IF 0 <= v /\ v <= MaxSample THEN v
      ELSE IF cast = "wrap" THEN v % (MaxSample + 1)
      ELSE IF v < 0 THEN 0 ELSE MaxSample

\* a faulty variant of ToPILImage: the array is read column by column
ToPILImageTransposed(pic, cast) ==
  LET R == pic.shape[1]
      K == pic.shape[2]
  IN  [mode |-> "L", width |-> K, height |-> R,
       rows |-> [r \in 1..R |-> [k \in 1..K |->
                   ToByte(pic.data[(k - 1) * R + r], cast)]]]

\* transforms.ToPILImage()(pic) for a 2-D pic
ToPILImage(pic, cast) ==
  LET R == pic.shape[1]
      K == pic.shape[2]
  IN  [mode |-> "L", width |-> K, height |-> R,
       rows |-> [r \in 1..R |-> [k \in 1..K |->
                   ToByte(pic.data[(r - 1) * K + k], cast)]]]

\* a faulty variant of DivBy255: the level is not divided by 255
DivBy255Missing(level) == 510 * level

\* the float ToTensor gives for an 8-bit level: level / 255
DivBy255(level) == 2 * level

\* transforms.ToTensor()(img): a (1, height, width) tensor of level / 255
ToTensor(img) ==
  Tensor(<<1, img.height, img.width>>,
         [n \in 1..(img.height * img.width) |->
            DivBy255(img.rows[((n - 1) \div img.width) + 1]
                             [((n - 1) % img.width) + 1])])

\* the shape of the 2-D view handed to ToPILImage
ImageShape(batch_size, channels, w, h) == <<batch_size * channels, w * h>>

\* a faulty variant of ResultShape: w and h in the wrong order
ResultShapeSwapped(batch_size, channels, w, h) == <<batch_size, channels, h, w>>

\* the shape of the tensor forward returns
ResultShape(batch_size, channels, w, h) == <<batch_size, channels, w, h>>

\* a faulty variant of UnpackOk: the first four sizes of a longer shape are taken
UnpackLoose(shape) == Len(shape) >= 4

\* whether `batch_size, channels, w, h = shape` unpacks
UnpackOk(shape) == Len(shape) = 4

\* a faulty variant of backward: the true gradient of a piecewise-constant map
backward_zero(c, grad_output) == Tensor(grad_output.shape, [k \in 1..Len(grad_output.data) |-> 0])

\* BottleneckUnit.backward(ctx, grad_output)
backward(c, grad_output) == grad_output

(***************************************************************************)
(* Invocations of BottleneckUnit.  Slots are the callers that may be       *)
(* inside forward or backward at the same time, each on tensors of its     *)
(* own.  A slot's call runs statement by statement; pc names the           *)
(* statement it is about to run.                                           *)
(***************************************************************************)
Slots == {1, 2}

\* the most invocations one behaviour starts, over all slots
MaxCalls == 3

\* the largest size of one axis of the small tensors
MaxDim == 2

\* the most elements of a small tensor
MaxNumel == 4

\* element values: 0, 0.5, 1, 1.5, -0.5, 127/255, 1 + 1/510, -1/510
Values == <<0, 255, 510, 765, -255, 254, 511, -1>>

Offsets == {0, 3, 5}

\* the tensor of a shape whose k-th element is the (o + k)-th value, cyclically
Fill(shape, o) ==
  Tensor(shape, [k \in 1..Prod(shape) |-> Values[((o + k - 1) % Len(Values)) + 1]])

Shapes4 ==
  {s \in [1..4 -> 1..MaxDim] : Prod(s) <= MaxNumel}

\* shapes that are not 4-dimensional: 0-D, 1-D, 2-D, 3-D, 5-D
BadShapes == {<<>>, <<2>>, <<1, 2>>, <<1, 1, 2>>, <<1, 1, 1, 1, 2>>}

\* the single-channel 28x28 tensor whose elements are all v
Const28(v) == Tensor(<<1, 1, 28, 28>>, [k \in 1..(28 * 28) |-> v])

\* the single-channel 28x28 tensor of all 0.5
Half28 == Const28(255)

\* constant 28x28 tensors: of 0.5, and of values from -0.5 to 1.5
Const28Inputs ==
  {Half28} \cup {Const28(v) : v \in {-255, 0, 100, 200, 254, 300, 400, 510, 765}}

\* the tensors slot 1 passes to forward, and those it passes to backward
ForwardInputs1 ==
  {Fill(s, o) : s \in Shapes4, o \in Offsets}
  \cup {Fill(s, 0) : s \in BadShapes}

BackwardInputs1 == {Fill(s, 3) : s \in Shapes4}

\* the tensors slot 2 passes
ForwardInputs2 == {Fill(<<2, 1, 1, 1>>, 3)}

BackwardInputs2 == {Fill(<<1, 1, 1, 2>>, 3)}

ForwardInputs(p) == IF p = 1 THEN ForwardInputs1 ELSE ForwardInputs2

BackwardInputs(p) == IF p = 1 THEN BackwardInputs1 ELSE BackwardInputs2

NoError == "None"

\* a frame's locals before any is bound
NoLocals ==
  [result |-> Absent, shape4 |-> Absent, outputIoStream |-> Absent,
   image |-> Absent, decompressed |-> Absent]

VARIABLES
  pc,        \* per slot: the statement the slot's call is about to run
  kind,      \* per slot: "forward" or "backward" (or "none" before a call)
  x,         \* per slot: the tensor argument (x, or grad_output) as it is now
  arg,       \* per slot: the tensor argument as the caller passed it
  ctx,       \* per slot: what has been saved on the autograd context
  loc,       \* per slot: the call's locals
  cast,      \* per slot: what the build's out-of-range uint8 cast did
  ret,       \* per slot: the returned tensor, once returned
  err,       \* per slot: the exception raised, if any
  lines,     \* per slot: the source lines the call has run, in order
  streams,   \* the BytesIO objects alive, by reference
  ncalls,    \* invocations started so far
  tpc,         \* the harness: the statement it is about to run
  epoch,       \* the epoch of the loop of line 223
  batch_idx,   \* train: minibatches taken from train_loader in this call
  test_idx,    \* test: batches taken from test_loader in this call
  layer,       \* the next layer of Net.forward, or the next node of backward
  ops,         \* the calls made for the current batch, in order
  tape,        \* the autograd graph recorded by the current forward pass
  gradEnabled, \* FALSE inside `with torch.no_grad()`
  gradState,   \* the parameters' .grad: "none", "zero" or "computed"
  params,      \* the number of optimizer steps applied to the parameters
  lrSteps,     \* the number of scheduler steps applied to the learning rate
  mode,        \* "train" after model.train(), "eval" after model.eval()
  test_loss,   \* test's accumulator
  correct,     \* test's accumulator
  testsDone    \* the number of calls of test() that have returned

fvars == <<pc, kind, x, arg, ctx, loc, cast, ret, err, lines, streams, ncalls>>

tvars == <<tpc, epoch, batch_idx, test_idx, layer, ops, tape, gradEnabled,
           gradState, params, lrSteps, mode, test_loss, correct, testsDone>>

vars == <<fvars, tvars>>

\* the locals, by their names in the source
batch_size(p) == loc[p].shape4[1]

channels(p) == loc[p].shape4[2]

w(p) == loc[p].shape4[3]

h(p) == loc[p].shape4[4]

\* a faulty variant of NewStream: one buffer kept at module level for all calls
SharedStream(p) == 1

\* the reference of the BytesIO object a call of slot p creates: an object of
\* its own
NewStream(p) == p

\* a BytesIO object: its contents and its position
EmptyStream == [data |-> Absent, pos |-> "start"]

Goto(p, label, line) ==
  /\ pc' = [pc EXCEPT ![p] = label]
  /\ lines' = [lines EXCEPT ![p] = Append(@, line)]

\* an exception leaves the frame: the locals are dropped, nothing is returned
Raise(p, e, line) ==
  /\ pc' = [pc EXCEPT ![p] = "raised"]
  /\ lines' = [lines EXCEPT ![p] = Append(@, line)]
  /\ err' = [err EXCEPT ![p] = e]
  /\ loc' = [loc EXCEPT ![p] = NoLocals]

\* the streams left when slot p's frame is dropped: its BytesIO is freed
Freed(p) ==
  IF loc[p].outputIoStream = Absent THEN streams
  ELSE [streams EXCEPT ![loc[p].outputIoStream[1]] = Absent]

\* slot p enters forward or backward (kind k) with the tensor t
Enter(p, k, t) ==
  /\ pc[p] \in {"idle", "done", "raised"}
  /\ ncalls < MaxCalls
  /\ ncalls' = ncalls + 1
  /\ kind' = [kind EXCEPT ![p] = k]
  /\ x' = [x EXCEPT ![p] = t]
  /\ arg' = [arg EXCEPT ![p] = t]
  /\ pc' = [pc EXCEPT ![p] = IF k = "forward" THEN "zeros_like"
                                              ELSE "backward_return"]
  /\ ctx' = [ctx EXCEPT ![p] = {}]
  /\ loc' = [loc EXCEPT ![p] = NoLocals]
  /\ cast' = [cast EXCEPT ![p] = "unused"]
  /\ ret' = [ret EXCEPT ![p] = Absent]
  /\ err' = [err EXCEPT ![p] = NoError]
  /\ lines' = [lines EXCEPT ![p] = <<>>]
  /\ UNCHANGED <<streams, tvars>>

\* BottleneckUnit.apply(x) enters forward, or the autograd engine enters
\* backward, on a slot that is in neither
Call(p) ==
  \E k \in {"forward", "backward"} :
    \E t \in (IF k = "forward" THEN ForwardInputs(p) ELSE BackwardInputs(p)) :
      Enter(p, k, t)

\* BottleneckUnit.apply(x) on a constant single-channel 28x28 tensor
CallConst28 == \E t \in Const28Inputs : Enter(1, "forward", t)

\* line 46: result = torch.zeros_like(x)
forward_zeros_like(p) ==
  /\ pc[p] = "zeros_like"
  /\ loc' = [loc EXCEPT ![p].result = Some(zeros_like(x[p]))]
  /\ Goto(p, "unpack", 46)
  /\ UNCHANGED <<kind, x, arg, ctx, cast, ret, err, streams, ncalls, tvars>>

\* line 47: batch_size, channels, w, h = x.shape
forward_unpack(p) ==
  /\ pc[p] = "unpack"
  /\ IF UnpackOk(x[p].shape)
       THEN /\ loc' = [loc EXCEPT ![p].shape4 = x[p].shape]
            /\ Goto(p, "BytesIO", 47)
            /\ UNCHANGED err
       ELSE Raise(p, "ValueError", 47)
  /\ UNCHANGED <<kind, x, arg, ctx, cast, ret, streams, ncalls, tvars>>

\* line 48: outputIoStream = BytesIO()
forward_BytesIO(p) ==
  /\ pc[p] = "BytesIO"
  /\ loc' = [loc EXCEPT ![p].outputIoStream = Some(NewStream(p))]
  /\ streams' = [streams EXCEPT ![NewStream(p)] = Some(EmptyStream)]
  /\ Goto(p, "ToPILImage", 48)
  /\ UNCHANGED <<kind, x, arg, ctx, cast, ret, err, ncalls, tvars>>

\* line 49: image = transforms.ToPILImage()(x.view(batch_size*channels, w*h))
forward_ToPILImage(p) ==
  /\ pc[p] = "ToPILImage"
  /\ LET shape2 == ImageShape(batch_size(p), channels(p), w(p), h(p))
     IN  IF ViewOk(x[p], shape2)
           THEN \E c \in CastOutcomes :
                  /\ cast' = [cast EXCEPT ![p] = c]
                  /\ loc' = [loc EXCEPT ![p].image =
                               Some(ToPILImage(view(x[p], shape2), c))]
                  /\ Goto(p, "save", 49)
                  /\ UNCHANGED <<err, streams>>
           ELSE /\ Raise(p, "RuntimeError", 49)
                /\ streams' = Freed(p)
                /\ UNCHANGED cast
  /\ UNCHANGED <<kind, x, arg, ctx, ret, ncalls, tvars>>

\* line 50: image.save(outputIoStream, "JPEG", quality=90)
forward_save(p) ==
  /\ pc[p] = "save"
  /\ streams' = [streams EXCEPT ![loc[p].outputIoStream[1]] =
                   Some([data |-> Some(JpegEncode(loc[p].image[1], Quality)),
                         pos |-> "end"])]
  /\ Goto(p, "seek", 50)
  /\ UNCHANGED <<kind, x, arg, ctx, loc, cast, ret, err, ncalls, tvars>>

\* line 51: outputIoStream.seek(0)
forward_seek(p) ==
  /\ pc[p] = "seek"
  /\ streams' = [streams EXCEPT ![loc[p].outputIoStream[1]] =
                   Some([@[1] EXCEPT !.pos = "start"])]
  /\ Goto(p, "open", 51)
  /\ UNCHANGED <<kind, x, arg, ctx, loc, cast, ret, err, ncalls, tvars>>

\* whether Image.open identifies an image at the stream's position
Identified(s) == s.pos = "start" /\ s.data # Absent

\* line 52: decompressed = Image.open(outputIoStream); the header is read,
\* the samples are loaded when first used
forward_open(p) ==
  /\ pc[p] = "open"
  /\ LET ref == loc[p].outputIoStream[1]
         s   == streams[ref][1]
     IN  IF Identified(s)
           THEN /\ loc' = [loc EXCEPT ![p].decompressed =
                             Some([fp |-> ref, mode |-> "L",
                                   width |-> s.data[1].width,
                                   height |-> s.data[1].height])]
                /\ Goto(p, "ToTensor", 52)
                /\ UNCHANGED <<err, streams>>
           ELSE /\ Raise(p, "UnidentifiedImageError", 52)
                /\ streams' = Freed(p)
  /\ UNCHANGED <<kind, x, arg, ctx, cast, ret, ncalls, tvars>>

\* the image a lazily opened file loads: the samples decoded from its stream
Loaded(img) == JpegDecode(streams[img.fp][1].data[1])

\* line 53: result = transforms.ToTensor()(decompressed)
forward_ToTensor(p) ==
  /\ pc[p] = "ToTensor"
  /\ loc' = [loc EXCEPT ![p].result = Some(ToTensor(Loaded(loc[p].decompressed[1])))]
  /\ Goto(p, "view", 53)
  /\ UNCHANGED <<kind, x, arg, ctx, cast, ret, err, streams, ncalls, tvars>>

\* line 54: result = result.view(batch_size, channels, w, h)
forward_view(p) ==
  /\ pc[p] = "view"
  /\ LET shape == ResultShape(batch_size(p), channels(p), w(p), h(p))
     IN  IF ViewOk(loc[p].result[1], shape)
           THEN /\ loc' = [loc EXCEPT ![p].result = Some(view(@[1], shape))]
                /\ Goto(p, "return", 54)
                /\ UNCHANGED <<err, streams>>
           ELSE /\ Raise(p, "RuntimeError", 54)
                /\ streams' = Freed(p)
  /\ UNCHANGED <<kind, x, arg, ctx, cast, ret, ncalls, tvars>>

\* line 55: return result; the frame's locals, the stream among them, die
forward_return(p) ==
  /\ pc[p] = "return"
  /\ ret' = [ret EXCEPT ![p] = loc[p].result]
  /\ streams' = Freed(p)
  /\ loc' = [loc EXCEPT ![p] = NoLocals]
  /\ Goto(p, "done", 55)
  /\ UNCHANGED <<kind, x, arg, ctx, cast, err, ncalls, tvars>>

\* line 59: return grad_output
backward_return(p) ==
  /\ pc[p] = "backward_return"
  /\ ret' = [ret EXCEPT ![p] = Some(backward(ctx[p], x[p]))]
  /\ Goto(p, "done", 59)
  /\ UNCHANGED <<kind, x, arg, ctx, loc, cast, err, streams, ncalls, tvars>>

(***************************************************************************)
(* The harness: the epoch loop, train(), test() and Net.forward.  A layer  *)
(* of Net is its name; the harness records each call it makes in ops       *)
(* (cleared when a new batch is taken) and, while gradients are enabled,   *)
(* each layer applied in tape, the graph loss.backward() walks in reverse. *)
(***************************************************************************)
\* the minibatches train_loader yields
NumTrainBatches == 2

\* the batches test_loader yields
NumTestBatches == 2

\* for epoch in range(1, 3)
FirstEpoch == 1

EndEpoch == 3

\* batch_size=128 of the loaders
BatchSize == 128

\* the layers Net.forward applies, in order (lines 79-94)
NetLayers ==
  <<"conv1", "relu", "conv2", "relu", "max_pool2d", "dropout",
    "BottleneckUnit", "conv3", "relu", "dropout", "flatten", "fc1", "relu",
    "dropout", "fc2", "log_softmax">>

\* a faulty variant of TrainTail: the optimizer steps before the backward pass
TrainTailStepFirst == <<"nll_loss", "optimizer.step", "loss.backward">>

\* the statements of train() for one minibatch after the forward pass
\* (lines 117-119)
TrainTail == <<"nll_loss", "loss.backward", "optimizer.step">>

\* the statement train() runs after a statement of TrainTail: the next one,
\* or the loop header
AfterTail(stmt) ==
  LET n == CHOOSE i \in 1..Len(TrainTail) : TrainTail[i] = stmt
  IN  IF n < Len(TrainTail) THEN TrainTail[n + 1] ELSE "train_for"

\* a faulty variant of RecordsGraph: torch.no_grad() is not honoured
RecordsAlways(enabled) == TRUE

\* whether an applied layer is recorded in the autograd graph
RecordsGraph(enabled) == enabled

\* the sum-reduced losses and the numbers of right predictions of a batch
BatchLosses == {0, 2 * BatchSize}

BatchCorrect == {0, BatchSize}

\* line 223: for epoch in range(1, 3)
main_for ==
  /\ tpc = "main_for"
  /\ IF epoch + 1 < EndEpoch
       THEN /\ epoch' = epoch + 1
            /\ tpc' = "model.train"
       ELSE /\ tpc' = "finished"
            /\ UNCHANGED epoch
  /\ UNCHANGED <<batch_idx, test_idx, layer, ops, tape, gradEnabled, gradState,
                 params, lrSteps, mode, test_loss, correct, testsDone, fvars>>

\* line 112: model.train()
train_mode ==
  /\ tpc = "model.train"
  /\ mode' = "train"
  /\ batch_idx' = 0
  /\ tpc' = "train_for"
  /\ UNCHANGED <<epoch, test_idx, layer, ops, tape, gradEnabled, gradState,
                 params, lrSteps, test_loss, correct, testsDone, fvars>>

\* lines 113-114: the next minibatch, or the end of train()
train_for ==
  /\ tpc = "train_for"
  /\ IF batch_idx < NumTrainBatches
       THEN /\ batch_idx' = batch_idx + 1
            /\ ops' = <<>>
            /\ tpc' = "zero_grad"
       ELSE /\ tpc' = "model.eval"
            /\ UNCHANGED <<batch_idx, ops>>
  /\ UNCHANGED <<epoch, test_idx, layer, tape, gradEnabled, gradState, params,
                 lrSteps, mode, test_loss, correct, testsDone, fvars>>

\* line 115: optimizer.zero_grad()
train_zero_grad ==
  /\ tpc = "zero_grad"
  /\ gradState' = "zero"
  /\ ops' = Append(ops, <<"call", "optimizer.zero_grad">>)
  /\ layer' = 1
  /\ tape' = <<>>
  /\ tpc' = "Net.forward"
  /\ UNCHANGED <<epoch, batch_idx, test_idx, gradEnabled, params, lrSteps,
                 mode, test_loss, correct, testsDone, fvars>>

\* lines 79-95, entered from line 116 or line 139: one layer of Net.forward;
\* the layer BottleneckUnit is BottleneckUnit.apply, which runs forward
Net_forward ==
  /\ tpc = "Net.forward"
  /\ layer <= Len(NetLayers)
  /\ ops' = Append(ops, <<"forward", NetLayers[layer]>>)
  /\ tape' = IF RecordsGraph(gradEnabled) THEN Append(tape, NetLayers[layer])
                                          ELSE tape
  /\ layer' = layer + 1
  /\ tpc' = IF layer < Len(NetLayers) THEN "Net.forward"
            ELSE IF mode = "train" THEN TrainTail[1] ELSE "test_loss"
  /\ UNCHANGED <<epoch, batch_idx, test_idx, gradEnabled, gradState, params,
                 lrSteps, mode, test_loss, correct, testsDone, fvars>>

\* line 117: loss = F.nll_loss(output, target)
train_loss ==
  /\ tpc = "nll_loss"
  /\ ops' = Append(ops, <<"forward", "nll_loss">>)
  /\ tape' = IF RecordsGraph(gradEnabled) THEN Append(tape, "nll_loss") ELSE tape
  /\ layer' = Len(tape')
  /\ tpc' = AfterTail("nll_loss")
  /\ UNCHANGED <<epoch, batch_idx, test_idx, gradEnabled, gradState, params,
                 lrSteps, mode, test_loss, correct, testsDone, fvars>>

\* line 118: loss.backward(): the graph's nodes, last first; the node
\* BottleneckUnit runs BottleneckUnit.backward; the graph is freed at the end
train_backward ==
  /\ tpc = "loss.backward"
  /\ IF layer >= 1
       THEN /\ ops' = Append(ops, <<"backward", tape[layer]>>)
            /\ layer' = layer - 1
            /\ UNCHANGED <<tape, gradState, tpc>>
       ELSE /\ gradState' = "computed"
            /\ tape' = <<>>
            /\ tpc' = AfterTail("loss.backward")
            /\ UNCHANGED <<ops, layer>>
  /\ UNCHANGED <<epoch, batch_idx, test_idx, gradEnabled, params, lrSteps,
                 mode, test_loss, correct, testsDone, fvars>>

\* lines 119-123: optimizer.step(), then the progress line
train_step ==
  /\ tpc = "optimizer.step"
  /\ params' = params + 1
  /\ ops' = Append(ops, <<"call", "optimizer.step">>)
  /\ tpc' = AfterTail("optimizer.step")
  /\ UNCHANGED <<epoch, batch_idx, test_idx, layer, tape, gradEnabled,
                 gradState, lrSteps, mode, test_loss, correct, testsDone, fvars>>

\* lines 133-136: model.eval(), the accumulators, with torch.no_grad()
test_begin ==
  /\ tpc = "model.eval"
  /\ mode' = "eval"
  /\ test_loss' = 0
  /\ correct' = 0
  /\ test_idx' = 0
  /\ gradEnabled' = FALSE
  /\ tpc' = "test_for"
  /\ UNCHANGED <<epoch, batch_idx, layer, ops, tape, gradState, params,
                 lrSteps, testsDone, fvars>>

\* lines 137-139: the next batch, or the end of the loop and of no_grad
test_for ==
  /\ tpc = "test_for"
  /\ IF test_idx < NumTestBatches
       THEN /\ test_idx' = test_idx + 1
            /\ ops' = <<>>
            /\ layer' = 1
            /\ tpc' = "Net.forward"
            /\ UNCHANGED gradEnabled
       ELSE /\ gradEnabled' = TRUE
            /\ tpc' = "test_report"
            /\ UNCHANGED <<test_idx, ops, layer>>
  /\ UNCHANGED <<epoch, batch_idx, tape, gradState, params, lrSteps, mode,
                 test_loss, correct, testsDone, fvars>>

\* lines 140-142: test_loss += ..., pred = ..., correct += ...
test_accumulate ==
  /\ tpc = "test_loss"
  /\ \E l \in BatchLosses : test_loss' = test_loss + l
  /\ \E c \in BatchCorrect : correct' = correct + c
  /\ ops' = Append(ops, <<"forward", "nll_loss">>)
  /\ tpc' = "test_for"
  /\ UNCHANGED <<epoch, batch_idx, test_idx, layer, tape, gradEnabled,
                 gradState, params, lrSteps, mode, testsDone, fvars>>

\* lines 144-148: test_loss /= len(test_loader.dataset), the report, return
test_report ==
  /\ tpc = "test_report"
  /\ test_loss' = test_loss \div (NumTestBatches * BatchSize)
  /\ testsDone' = testsDone + 1
  /\ tpc' = "scheduler.step"
  /\ UNCHANGED <<epoch, batch_idx, test_idx, layer, ops, tape, gradEnabled,
                 gradState, params, lrSteps, mode, correct, fvars>>

\* line 226: scheduler.step()
scheduler_step ==
  /\ tpc = "scheduler.step"
  /\ lrSteps' = lrSteps + 1
  /\ tpc' = "main_for"
  /\ UNCHANGED <<epoch, batch_idx, test_idx, layer, ops, tape, gradEnabled,
                 gradState, params, mode, test_loss, correct, testsDone, fvars>>

(***************************************************************************)
(* The specifications.  Spec: calls of forward and backward on small        *)
(* tensors, interleaved over the slots, the harness not started.           *)
(* SpecTrain: the notebook's last cell, one thread, no other caller of     *)
(* BottleneckUnit.  SpecConst28: calls of forward on constant 28x28        *)
(* tensors, one at a time.                                                 *)
(***************************************************************************)
InitCalls ==
  /\ pc = [p \in Slots |-> "idle"]
  /\ kind = [p \in Slots |-> "none"]
  /\ x = [p \in Slots |-> Absent]
  /\ arg = [p \in Slots |-> Absent]
  /\ ctx = [p \in Slots |-> {}]
  /\ loc = [p \in Slots |-> NoLocals]
  /\ cast = [p \in Slots |-> "unused"]
  /\ ret = [p \in Slots |-> Absent]
  /\ err = [p \in Slots |-> NoError]
  /\ lines = [p \in Slots |-> <<>>]
  /\ streams = [p \in Slots |-> Absent]
  /\ ncalls = 0

\* the state after `scheduler = StepLR(...)`, line 222
InitHarness ==
  /\ tpc = "main_for"
  /\ epoch = FirstEpoch - 1
  /\ batch_idx = 0
  /\ test_idx = 0
  /\ layer = 1
  /\ ops = <<>>
  /\ tape = <<>>
  /\ gradEnabled = TRUE
  /\ gradState = "none"
  /\ params = 0
  /\ lrSteps = 0
  /\ mode = "train"
  /\ test_loss = 0
  /\ correct = 0
  /\ testsDone = 0

Init == InitCalls /\ InitHarness

Next ==
  \E p \in Slots :
    \/ Call(p)
    \/ forward_zeros_like(p)
    \/ forward_unpack(p)
    \/ forward_BytesIO(p)
    \/ forward_ToPILImage(p)
    \/ forward_save(p)
    \/ forward_seek(p)
    \/ forward_open(p)
    \/ forward_ToTensor(p)
    \/ forward_view(p)
    \/ forward_return(p)
    \/ backward_return(p)

Spec == Init /\ [][Next]_vars

NextTrain ==
  \/ main_for
  \/ train_mode
  \/ train_for
  \/ train_zero_grad
  \/ Net_forward
  \/ train_loss
  \/ train_backward
  \/ train_step
  \/ test_begin
  \/ test_for
  \/ test_accumulate
  \/ test_report
  \/ scheduler_step

SpecTrain == Init /\ [][NextTrain]_vars

\* forward alone, on constant 28x28 tensors
NextConst28 ==
  \/ CallConst28
  \/ forward_zeros_like(1)
  \/ forward_unpack(1)
  \/ forward_BytesIO(1)
  \/ forward_ToPILImage(1)
  \/ forward_save(1)
  \/ forward_seek(1)
  \/ forward_open(1)
  \/ forward_ToTensor(1)
  \/ forward_view(1)
  \/ forward_return(1)

SpecConst28 == Init /\ [][NextConst28]_vars

(***************************************************************************)
(* What the calls are checked against.                                     *)
(***************************************************************************)
\* forward as one function of its argument and of the build's cast, with no
\* other call in sight; Absent when the shape does not unpack
ForwardAlone(t, c) ==
  IF Len(t.shape) # 4 THEN Absent
  ELSE LET img == ToPILImage(view(t, <<t.shape[1] * t.shape[2],
                                       t.shape[3] * t.shape[4]>>), c)
       IN  Some(view(ToTensor(JpegDecode(JpegEncode(img, Quality))), t.shape))

\* t with each element below 0 replaced by 0 and each above 1 by 1
Clamp01(t) == Tensor(t.shape, [k \in 1..Numel(t) |-> Max(0, Min(510, t.data[k]))])

\* whether every element x of t has -1/255 < x < 256/255, so that 255 * x
\* truncates into 0..255
InCastRange(t) == \A k \in 1..Numel(t) : -2 < t.data[k] /\ t.data[k] < 512

\* whether every element of t is a level / 255
Quantized(t) ==
  \A k \in 1..Numel(t) : t.data[k] % 2 = 0 /\ 0 <= t.data[k] /\ t.data[k] <= 510

\* the zero-based positions (b, c, i, j) of a 4-D shape
Positions(shape) ==
  (0..(shape[1] - 1)) \X (0..(shape[2] - 1)) \X (0..(shape[3] - 1))
    \X (0..(shape[4] - 1))

IsForward(p) == kind[p] = "forward"

IsBackward(p) == kind[p] = "backward"

\* the number of times e occurs in the tuple s
Count(s, e) == Cardinality({i \in 1..Len(s) : s[i] = e})

\* the first place of e in the tuple s, 0 when it has none
Pos(s, e) ==
  IF Count(s, e) = 0 THEN 0
  ELSE CHOOSE i \in 1..Len(s) : s[i] = e /\ \A j \in 1..(i - 1) : s[j] # e

FwdBottleneck == <<"forward", "BottleneckUnit">>

BwdBottleneck == <<"backward", "BottleneckUnit">>

FwdLoss == <<"forward", "nll_loss">>

ZeroGrad == <<"call", "optimizer.zero_grad">>

OptStep == <<"call", "optimizer.step">>

(***************************************************************************)
(* Properties of BottleneckUnit, under Spec.                               *)
(***************************************************************************)

\* C1: backward is the identity on gradients: whatever tensor G the call got
\* and whatever was called before, it returns G element for element and
\* leaves G as it was.
BackwardIsIdentity ==
  \A p \in Slots :
    (IsBackward(p) /\ pc[p] = "done") =>
      /\ ret[p] = Some(arg[p])
      /\ x[p] = arg[p]
      /\ err[p] = NoError

\* a backward call has returned a gradient with negative and non-zero
\* elements while the other slot has finished a forward call on a tensor of
\* another shape
BackwardIsIdentityWitness ==
  \E p \in Slots : \E q \in Slots \ {p} :
    /\ IsBackward(p) /\ pc[p] = "done"
    /\ \E k \in 1..Numel(arg[p]) : arg[p].data[k] < 0
    /\ ret[p] = Some(arg[p])
    /\ IsForward(q) /\ pc[q] = "done"
    /\ arg[q].shape # arg[p].shape

OutputInUnitInterval ==
  \A p \in Slots :
    (IsForward(p) /\ pc[p] = "done") =>
      \A k \in 1..Numel(ret[p][1]) :
        0 <= ret[p][1].data[k] /\ ret[p][1].data[k] <= 510

\* forward has returned for an input with an element below 0 and one above 1
OutputInUnitIntervalWitness ==
  \E p \in Slots :
    /\ IsForward(p) /\ pc[p] = "done"
    /\ \E k \in 1..Numel(arg[p]) : arg[p].data[k] < 0
    /\ \E k \in 1..Numel(arg[p]) : arg[p].data[k] > 510
    /\ \A k \in 1..Numel(ret[p][1]) :
         0 <= ret[p][1].data[k] /\ ret[p][1].data[k] <= 510

\* C4 as stated: an input and its elementwise clamp to [0, 1] are encoded to
\* the same 8-bit levels and give the same forward output.
ClampedOnEncode ==
  \A p \in Slots :
    (IsForward(p) /\ Len(arg[p].shape) = 4) =>
      /\ loc[p].image # Absent =>
           loc[p].image[1] =
             ToPILImage(view(Clamp01(arg[p]), <<loc[p].image[1].height,
                                                loc[p].image[1].width>>), cast[p])
      /\ pc[p] = "done" => ret[p] = ForwardAlone(Clamp01(arg[p]), cast[p])

\* C4 as amended: an input and its clamp are encoded to the same levels and
\* give the same output when every element x has -1/255 < x < 256/255, so
\* that 255 * x truncates into 0..255, or when the build's out-of-range cast
\* saturates.
ClampedWhenCastInRange ==
  \A p \in Slots :
    (/\ IsForward(p)
     /\ Len(arg[p].shape) = 4
     /\ (InCastRange(arg[p]) \/ cast[p] = "saturate")) =>
      /\ loc[p].image # Absent =>
           loc[p].image[1] =
             ToPILImage(view(Clamp01(arg[p]), <<loc[p].image[1].height,
                                                loc[p].image[1].width>>), cast[p])
      /\ pc[p] = "done" => ret[p] = ForwardAlone(Clamp01(arg[p]), cast[p])

\* on a build whose cast wraps, forward has returned for an input that has an
\* element just below 0 and one just above 1, every element in the cast's range
ClampedWhenCastInRangeWitness ==
  \E p \in Slots :
    /\ IsForward(p) /\ pc[p] = "done"
    /\ cast[p] = "wrap"
    /\ InCastRange(arg[p])
    /\ \E k \in 1..Numel(arg[p]) : arg[p].data[k] < 0
    /\ \E k \in 1..Numel(arg[p]) : arg[p].data[k] > 510
    /\ ret[p] = ForwardAlone(Clamp01(arg[p]), cast[p])

\* C5: forward on an input that is not 4-dimensional fails at the unpacking
\* of line 47, right after line 46 and once: no stream is created, no image
\* is made, nothing is returned and the input is as it was.
NonFourDFailsAtUnpack ==
  \A p \in Slots :
    (IsForward(p) /\ Len(arg[p].shape) # 4) =>
      /\ pc[p] \in {"zeros_like", "unpack", "raised"}
      /\ loc[p].outputIoStream = Absent
      /\ loc[p].image = Absent
      /\ loc[p].decompressed = Absent
      /\ ret[p] = Absent
      /\ x[p] = arg[p]
      /\ pc[p] = "raised" => (err[p] = "ValueError" /\ lines[p] = <<46, 47>>)
      /\ pc[p] # "raised" => err[p] = NoError

\* forward has raised on a 5-dimensional input
NonFourDFailsAtUnpackWitness ==
  \E p \in Slots :
    /\ IsForward(p) /\ pc[p] = "raised"
    /\ Len(arg[p].shape) = 5
    /\ err[p] = "ValueError"

\* C6: no state is shared between calls: each call's stream is its own and is
\* freed when the call ends, nothing is saved on ctx, and a finished call
\* has returned what it returns when run alone on the same argument, with the
\* argument left as it was, whatever ran before it or alongside it.
NoSharedState ==
  /\ \A p \in Slots :
       /\ ctx[p] = {}
       /\ pc[p] \in {"done", "raised"} =>
            /\ x[p] = arg[p]
            /\ loc[p] = NoLocals
            /\ IsForward(p) => ret[p] = ForwardAlone(arg[p], cast[p])
            /\ IsBackward(p) => ret[p] = Some(arg[p])
       /\ loc[p].outputIoStream # Absent =>
            /\ streams[loc[p].outputIoStream[1]] # Absent
            /\ \A q \in Slots \ {p} :
                 loc[q].outputIoStream # loc[p].outputIoStream
  /\ \A r \in Slots :
       streams[r] # Absent => \E p \in Slots : loc[p].outputIoStream = Some(r)

\* slot 1 has returned from forward, as the last of the calls, while slot 2,
\* inside forward on another tensor, has written its stream
NoSharedStateWitness ==
  /\ ncalls = MaxCalls
  /\ IsForward(1) /\ pc[1] = "done"
  /\ ret[1] = ForwardAlone(arg[1], cast[1])
  /\ IsForward(2) /\ pc[2] \in {"seek", "open", "ToTensor"}
  /\ arg[2] # arg[1]
  /\ lines[1] = <<46, 47, 48, 49, 50, 51, 52, 53, 54, 55>>

\* C7 (under SpecConst28): forward of the (1, 1, 28, 28) tensor of all 0.5 returns a tensor of
\* that shape whose every element is within 0.05 of 0.5.
HalfSurvives ==
  \A p \in Slots :
    (IsForward(p) /\ pc[p] = "done" /\ arg[p] = Half28) =>
      /\ ret[p] # Absent
      /\ ret[p][1].shape = <<1, 1, 28, 28>>
      /\ \A k \in 1..Numel(ret[p][1]) : 2 * Abs(ret[p][1].data[k] - 255) <= 51

\* forward has returned for that tensor, every element 127/255
HalfSurvivesWitness ==
  \E p \in Slots :
    /\ IsForward(p) /\ pc[p] = "done" /\ arg[p] = Half28
    /\ \A k \in 1..(28 * 28) : ret[p][1].data[k] = 2 * 127

\* C9: the reshapes keep positions: input element (b, c, i, j) is the pixel
\* at row b*C + c and column i*H + j of the image, and the decoded pixel at
\* that row and column is output element (b, c, i, j); hence where the codec
\* returns the image unchanged and the input is already quantized, the
\* output is the input.
ReshapesKeepPositions ==
  \A p \in Slots :
    (IsForward(p) /\ Len(arg[p].shape) = 4) =>
      LET C == arg[p].shape[2]
          H == arg[p].shape[4]
      IN  /\ loc[p].image # Absent =>
               LET img == loc[p].image[1]
               IN  /\ img.height = arg[p].shape[1] * C
                   /\ img.width = arg[p].shape[3] * H
                   /\ \A q \in Positions(arg[p].shape) :
                        img.rows[q[1] * C + q[2] + 1][q[3] * H + q[4] + 1]
                          = ToByte(Elem(arg[p], q[1], q[2], q[3], q[4]), cast[p])
          /\ pc[p] = "return" =>
               LET dec == Loaded(loc[p].decompressed[1])
                   res == loc[p].result[1]
               IN  /\ res.shape = arg[p].shape
                   /\ \A q \in Positions(arg[p].shape) :
                        Elem(res, q[1], q[2], q[3], q[4])
                          = DivBy255(dec.rows[q[1] * C + q[2] + 1][q[3] * H + q[4] + 1])
                   /\ (Quantized(arg[p]) /\ dec.rows = loc[p].image[1].rows)
                        => res = arg[p]

\* forward is about to return for a 2x2-pixel image of four distinct levels
ReshapesKeepPositionsWitness ==
  \E p \in Slots :
    /\ IsForward(p) /\ pc[p] = "return"
    /\ arg[p].shape = <<2, 1, 1, 2>>
    /\ Cardinality({arg[p].data[k] : k \in 1..4}) = 4
    /\ loc[p].image[1].rows[2][1] = ToByte(Elem(arg[p], 1, 0, 0, 0), cast[p])

(***************************************************************************)
(* Properties of the harness, under SpecTrain.                             *)
(***************************************************************************)

\* C8: each minibatch of train() makes its calls in one order:
\* optimizer.zero_grad, one BottleneckUnit.forward (right after max_pool2d
\* and dropout, right before conv3), the loss, one BottleneckUnit.backward,
\* one optimizer.step; no optimizer.step comes before the backward of its
\* minibatch; and a scheduler step comes only after all minibatches of its
\* epoch are trained and test() has returned.
TrainCallOrder ==
  /\ (tpc = "train_for" /\ batch_idx >= 1) =>
       /\ Count(ops, ZeroGrad) = 1
       /\ Count(ops, FwdBottleneck) = 1
       /\ Count(ops, FwdLoss) = 1
       /\ Count(ops, BwdBottleneck) = 1
       /\ Count(ops, OptStep) = 1
       /\ ops[1] = ZeroGrad
       /\ ops[Len(ops)] = OptStep
       /\ Pos(ops, FwdBottleneck) > 3
       /\ ops[Pos(ops, FwdBottleneck) - 2] = <<"forward", "max_pool2d">>
       /\ ops[Pos(ops, FwdBottleneck) - 1] = <<"forward", "dropout">>
       /\ ops[Pos(ops, FwdBottleneck) + 1] = <<"forward", "conv3">>
       /\ Pos(ops, FwdBottleneck) < Pos(ops, FwdLoss)
       /\ Pos(ops, FwdLoss) < Pos(ops, BwdBottleneck)
       /\ Pos(ops, BwdBottleneck) < Pos(ops, OptStep)
       /\ params = (epoch - FirstEpoch) * NumTrainBatches + batch_idx
  /\ Count(ops, OptStep) > 0 =>
       /\ Count(ops, BwdBottleneck) = 1
       /\ Pos(ops, BwdBottleneck) < Pos(ops, OptStep)
       /\ gradState = "computed"
  /\ params >= lrSteps * NumTrainBatches
  /\ testsDone >= lrSteps
  /\ tpc = "scheduler.step" =>
       /\ params = (lrSteps + 1) * NumTrainBatches
       /\ testsDone = lrSteps + 1

\* the last minibatch of the second epoch is trained, one scheduler step made
TrainCallOrderWitness ==
  /\ tpc = "train_for"
  /\ epoch = FirstEpoch + 1
  /\ batch_idx = NumTrainBatches
  /\ lrSteps = 1
  /\ Count(ops, FwdBottleneck) = 1
  /\ Count(ops, BwdBottleneck) = 1
  /\ ops[Len(ops)] = OptStep

\* the harness is inside test()
InTest ==
  \/ tpc \in {"model.eval", "test_for", "test_loss", "test_report"}
  \/ (tpc = "Net.forward" /\ mode = "eval")

\* C10: no step of test() changes the parameters, their gradients, the
\* autograd graph or the learning-rate schedule; for each batch test() runs
\* Net.forward, and with it BottleneckUnit.forward, once, and runs no
\* backward, no optimizer call and no scheduler step.
TestChangesNothing ==
  /\ [](tpc = "test_for" /\ test_idx >= 1 =>
          /\ Count(ops, <<"forward", "conv1">>) = 1
          /\ Count(ops, FwdBottleneck) = 1
          /\ Count(ops, <<"forward", "log_softmax">>) = 1
          /\ \A i \in 1..Len(ops) : ops[i][1] = "forward"
          /\ tape = <<>>)
  /\ [][InTest => /\ params' = params
                  /\ lrSteps' = lrSteps
                  /\ gradState' = gradState
                  /\ tape' = tape
                  /\ batch_idx' = batch_idx
                  /\ epoch' = epoch]_vars

\* test() of the first epoch has run all its batches after the training, and
\* has counted right predictions
TestChangesNothingWitness ==
  /\ tpc = "test_report"
  /\ epoch = FirstEpoch
  /\ test_idx = NumTestBatches
  /\ params = NumTrainBatches
  /\ gradState = "computed"
  /\ correct > 0
  /\ Count(ops, FwdBottleneck) = 1

====
